---- MODULE Spec2Model ----
(***************************************************************************)
(* A model of github.com/axkit/jsonmask.                                   *)
(*                                                                         *)
(* Text is modelled byte by byte: a Go string or []byte is a sequence of   *)
(* one-character strings, so that joinPath, strings.Index, strings.Count,  *)
(* strings.ReplaceAll and the masking functions are computed the way the   *)
(* code computes them.  Tag names and action names are only ever compared  *)
(* and looked up, and are plain strings.                                   *)
(***************************************************************************)
EXTENDS Integers, Sequences, FiniteSets, TLC

(***************************************************************************)
(* Go string primitives                                                    *)
(***************************************************************************)

\* s[:n]
Take(s, n) == SubSeq(s, 1, n)

\* s[n:]
Drop(s, n) == SubSeq(s, n + 1, Len(s))

\* strings.Index(s, sub): the 0-based position of the first occurrence, -1 if none
StrIndex(s, sub) ==
    LET hits == {i \in 0..(Len(s) - Len(sub)) : SubSeq(s, i + 1, i + Len(sub)) = sub}
    IN  IF hits = {} THEN 0 - 1 ELSE CHOOSE i \in hits : \A j \in hits : i <= j

\* strings.Count(s, sub): the number of non-overlapping occurrences (sub non-empty)
RECURSIVE StrCount(_, _)
StrCount(s, sub) ==
    LET i == StrIndex(s, sub)
    IN  IF i < 0 THEN 0 ELSE 1 + StrCount(Drop(s, i + Len(sub)), sub)

\* strings.ReplaceAll(s, old, new) for a one-byte old
RECURSIVE ReplaceAll(_, _, _)
ReplaceAll(s, old, new) ==
    IF s = <<>> THEN <<>>
    ELSE (IF Head(s) = old THEN new ELSE <<Head(s)>>) \o ReplaceAll(Tail(s), old, new)

Digits == <<"0", "1", "2", "3", "4", "5", "6", "7", "8", "9">>

\* strconv.Itoa(i), i >= 0
RECURSIVE Itoa(_)
Itoa(i) == IF i < 10 THEN <<Digits[i + 1]>> ELSE Itoa(i \div 10) \o <<Digits[(i % 10) + 1]>>

IsDigit(c) == \E k \in 1..10 : Digits[k] = c

LowerLetters ==
    <<"a", "b", "c", "d", "e", "f", "g", "h", "i", "j", "k", "l", "m",
      "n", "o", "p", "q", "r", "s", "t", "u", "v", "w", "x", "y", "z">>

UpperLetters ==
    <<"A", "B", "C", "D", "E", "F", "G", "H", "I", "J", "K", "L", "M",
      "N", "O", "P", "Q", "R", "S", "T", "U", "V", "W", "X", "Y", "Z">>

ToUpperByte(c) ==
    IF \E k \in 1..26 : LowerLetters[k] = c
    THEN UpperLetters[CHOOSE k \in 1..26 : LowerLetters[k] = c]
    ELSE c

ToLowerByte(c) ==
    IF \E k \in 1..26 : UpperLetters[k] = c
    THEN LowerLetters[CHOOSE k \in 1..26 : UpperLetters[k] = c]
    ELSE c

\* bytes.ToUpper / strings.ToUpper
ToUpper(s) == [i \in 1..Len(s) |-> ToUpperByte(s[i])]

\* bytes.ToLower
ToLower(s) == [i \in 1..Len(s) |-> ToLowerByte(s[i])]

Quote == "\""

(***************************************************************************)
(* maskers.go: the built-in masking functions, raw value -> raw value      *)
(***************************************************************************)

Upper(s) == ToUpper(s)

Lower(s) == ToLower(s)

InitialChar(s) == IF Len(s) > 2 THEN ToUpper(Take(s, 2) \o <<Quote>>) ELSE s

PrefixFn(length, addEllipsis, s) ==
    IF Len(s) <= length + 2 THEN s
    ELSE Take(s, length + 1) \o (IF addEllipsis THEN <<".", ".", ".", Quote>> ELSE <<Quote>>)

Truncate(s) ==
    IF Len(s) > 2 /\ ToUpper(s) # <<"N", "U", "L", "L">> THEN <<Quote, Quote>> ELSE s

Null(s) == <<"n", "u", "l", "l">>

Zero(s) == <<"0">>

invalidEmail ==
    <<Quote, "i", "n", "v", "a", "l", "i", "d", "_", "e", "m", "a", "i", "l", "_",
      "f", "o", "r", "m", "a", "t", Quote>>

\* Positions are Go's 0-based byte positions; byte i of the Go slice is s[i + 1].
Email(email) ==
    IF Len(email) < 2 \/ email[1] # Quote \/ email[Len(email)] # Quote THEN invalidEmail
    ELSE
      LET n == Len(email)
          ats == {i \in 1..(n - 2) : email[i + 1] = "@"}
          atIndex == IF ats = {} THEN 0 - 1 ELSE CHOOSE i \in ats : \A j \in ats : i <= j
      IN  IF atIndex <= 1 \/ atIndex = n - 1 THEN invalidEmail
          ELSE
            LET localEnd == IF atIndex - 1 <= 2 THEN atIndex ELSE atIndex - 1
                dots == {i \in (atIndex + 1)..(n - 2) : email[i + 1] = "."}
                lastDotIndex ==
                    IF dots = {} THEN 0 - 1 ELSE CHOOSE i \in dots : \A j \in dots : i >= j
            IN  IF lastDotIndex = 0 - 1 THEN invalidEmail
                ELSE [p \in 1..n |->
                        LET i == p - 1
                        IN  IF (2 <= i /\ i < localEnd) \/ (atIndex + 2 <= i /\ i < lastDotIndex)
                            THEN "*" ELSE email[p]]

(***************************************************************************)
(* reflect: a Go value together with its type.                             *)
(*   kind   : reflect.Kind                                                 *)
(*   set    : a pointer is non-nil / a slice or array has Len() > 0        *)
(*   elem   : the pointee, or element 0 (its type when there is none)      *)
(*   fields : the fields of a struct, in declaration order                 *)
(* A struct field carries its Go name, its `json` tag and the values of    *)
(* its other tags by tag name.                                             *)
(***************************************************************************)

NoValue == [kind |-> "invalid", set |-> FALSE, fields |-> <<>>]

Basic(kind) == [kind |-> kind, set |-> TRUE, elem |-> NoValue, fields |-> <<>>]

Ptr(set, elem) == [kind |-> "ptr", set |-> set, elem |-> elem, fields |-> <<>>]

Slice(set, elem) == [kind |-> "slice", set |-> set, elem |-> elem, fields |-> <<>>]

Array(elem) == [kind |-> "array", set |-> TRUE, elem |-> elem, fields |-> <<>>]

MapOf(elem) == [kind |-> "map", set |-> FALSE, elem |-> elem, fields |-> <<>>]

Struct(fields) == [kind |-> "struct", set |-> TRUE, elem |-> NoValue, fields |-> fields]

StructField(name, json, mask, alt, val) ==
    [Name |-> name, json |-> json, tags |-> [mask |-> mask, alt |-> alt], val |-> val]

\* reflect.StructField.IsExported: the name starts with an upper-case letter
IsExported(sf) == \E k \in 1..26 : UpperLetters[k] = sf.Name[1]

\* reflect.New(t).Elem(): the zero value of a type
RECURSIVE ZeroValue(_)
ZeroValue(v) ==
    CASE v.kind \in {"ptr", "slice", "map"} -> [v EXCEPT !.set = FALSE]
      [] v.kind = "array" -> [v EXCEPT !.elem = ZeroValue(v.elem)]
      [] v.kind = "struct" ->
            [v EXCEPT !.fields =
                [i \in 1..Len(v.fields) |->
                    [v.fields[i] EXCEPT !.val = ZeroValue(v.fields[i].val)]]]
      [] OTHER -> v

\* val.Index(0) when val.Len() > 0, else reflect.New(val.Type().Elem()).Elem()
FirstElem(v) == IF v.set THEN v.elem ELSE ZeroValue(v.elem)

(***************************************************************************)
(* The masker and the rules                                                *)
(***************************************************************************)

DefaultStructFieldTag == "mask"

\* The built-in functions NewWithMaskTag registers, by name.
BuiltinNames == {"upper", "lower", "initialChar", "truncate", "null", "email", "first4", "zero"}

\* What a registered function does to a raw value; fn names the function value.
ApplyFunc(fn, s) ==
    CASE fn = "upper" -> Upper(s)
      [] fn = "lower" -> Lower(s)
      [] fn = "initialChar" -> InitialChar(s)
      [] fn = "truncate" -> Truncate(s)
      [] fn = "null" -> Null(s)
      [] fn = "email" -> Email(s)
      [] fn = "first4" -> PrefixFn(4, FALSE, s)
      [] fn = "first3dots" -> PrefixFn(3, TRUE, s)
      [] fn = "zero" -> Zero(s)

\* jm.tag as NewWithMaskTag sets it
NewTag(tag) == DefaultStructFieldTag

\* jm.funcs as NewWithMaskTag fills it: name -> function
NewFuncs == [n \in BuiltinNames |-> n]

\* jm.funcs[name] = f
AddFuncTo(fs, name, f) == [n \in (DOMAIN fs) \cup {name} |-> IF n = name THEN f ELSE fs[n]]

Rule(path, action) == [Path |-> path, Action |-> action, sliceLevel |-> 0]

joinPath(parent, child) == IF parent = <<>> THEN child ELSE parent \o <<".">> \o child

\* parseFieldTag: <<wire name, rule tag>>
parseFieldTag(tag, field) ==
    LET jsonAttr == field.json
        idx == StrIndex(jsonAttr, <<",">>)
        name == IF jsonAttr = <<>> \/ jsonAttr[1] = "," THEN field.Name
                ELSE IF idx >= 0 THEN Take(jsonAttr, idx)
                ELSE jsonAttr
    IN  <<name, field.tags[tag]>>

\* for val.Kind() == reflect.Ptr { ... } of extractStructFieldRules
RECURSIVE DerefField(_)
DerefField(val) ==
    IF val.kind = "ptr"
    THEN (IF ~val.set THEN DerefField(ZeroValue(val.elem)) ELSE DerefField(val.elem))
    ELSE val

\* for s.Kind() == reflect.Ptr { s = reflect.New(s.Type().Elem()).Elem() }
RECURSIVE DerefStruct(_)
DerefStruct(s) == IF s.kind = "ptr" THEN DerefStruct(ZeroValue(s.elem)) ELSE s

\* for val.Kind() == reflect.Slice { val = New(Elem); jsonAttrName += ".#" }:
\* <<val, jsonAttrName>> when the loop ends
RECURSIVE SliceLoop(_, _)
SliceLoop(val, jsonAttrName) ==
    IF val.kind = "slice"
    THEN SliceLoop(ZeroValue(val.elem), jsonAttrName \o <<".", "#">>)
    ELSE <<val, jsonAttrName>>

RECURSIVE extractStructRules(_, _, _)
RECURSIVE extractStructFieldRules(_, _, _, _)
RECURSIVE extractFields(_, _, _, _)

\* the loop over the fields of extractStructRules, from field i on
extractFields(tag, s, i, parentAttr) ==
    IF i > Len(s.fields) THEN <<>>
    ELSE (IF ~IsExported(s.fields[i]) THEN <<>>
          ELSE extractStructFieldRules(tag, s.fields[i].val, s.fields[i], parentAttr))
         \o extractFields(tag, s, i + 1, parentAttr)

extractStructRules(tag, str, parentAttr) ==
    LET s == DerefStruct(str)
    IN  IF s.kind # "struct" THEN <<>> ELSE extractFields(tag, s, 1, parentAttr)

extractStructFieldRules(tag, val0, sf, parentAttr) ==
    LET val1 == DerefField(val0)
        isSlice == val1.kind \in {"slice", "array"}
        val == IF isSlice THEN FirstElem(val1) ELSE val1
        kind == val.kind
        parsed == parseFieldTag(tag, sf)
        jsonMaskTag == parsed[2]
        jsonAttrName ==
            IF isSlice THEN joinPath(parentAttr, parsed[1] \o <<".", "#">>) ELSE parsed[1]
    IN  IF jsonMaskTag = "-"
        THEN <<Rule(joinPath(parentAttr, parsed[1]), jsonMaskTag)>>
        ELSE IF kind \notin {"ptr", "slice", "array", "struct", "map"}
        THEN (IF jsonMaskTag = "" THEN <<>>
              ELSE <<Rule(joinPath(parentAttr, parsed[1]), jsonMaskTag)>>)
        ELSE CASE kind = "struct" -> extractStructRules(tag, val, jsonAttrName)
               [] kind = "slice" ->
                    LET end == SliceLoop(val, jsonAttrName)
                    IN  extractStructRules(tag, end[1], end[2])
               [] OTHER -> <<Rule(joinPath(parentAttr, jsonAttrName), sf.tags[tag])>>

\* ParseStruct: the rules of src, each with its sliceLevel
ParseStruct(tag, src) ==
    LET rs == extractStructRules(tag, src, <<>>)
    IN  [i \in 1..Len(rs) |-> [rs[i] EXCEPT !.sliceLevel = StrCount(rs[i].Path, <<".", "#">>)]]

(***************************************************************************)
(* The JSON document.  The code holds it as text and reaches into it only   *)
(* through gjson.GetBytes, sjson.SetRawBytes and sjson.DeleteBytes; here it *)
(* is the tree that text denotes, members and elements in textual order,    *)
(* every scalar kept as its raw bytes:                                      *)
(*   t = "obj": kv, the members [k |-> key, v |-> value]                    *)
(*   t = "arr": el, the elements                                            *)
(*   t = "raw": raw, the bytes of a string, number or literal               *)
(***************************************************************************)

Raw(r) == [t |-> "raw", kv |-> <<>>, el |-> <<>>, raw |-> r]

Obj(kv) == [t |-> "obj", kv |-> kv, el |-> <<>>, raw |-> <<>>]

Arr(el) == [t |-> "arr", kv |-> <<>>, el |-> el, raw |-> <<>>]

Member(k, v) == [k |-> k, v |-> v]

Str(s) == Raw(<<Quote>> \o s \o <<Quote>>)

JsonNull == Raw(<<"n", "u", "l", "l">>)

\* the text of a value, as json.Marshal lays it out
RECURSIVE Serialize(_)
RECURSIVE SerializeMembers(_, _)
RECURSIVE SerializeElems(_, _)
SerializeMembers(kv, i) ==
    IF i > Len(kv) THEN <<>>
    ELSE (IF i > 1 THEN <<",">> ELSE <<>>) \o <<Quote>> \o kv[i].k \o <<Quote, ":">>
         \o Serialize(kv[i].v) \o SerializeMembers(kv, i + 1)
SerializeElems(el, i) ==
    IF i > Len(el) THEN <<>>
    ELSE (IF i > 1 THEN <<",">> ELSE <<>>) \o Serialize(el[i]) \o SerializeElems(el, i + 1)
Serialize(v) ==
    CASE v.t = "raw" -> v.raw
      [] v.t = "obj" -> <<"{">> \o SerializeMembers(v.kv, 1) \o <<"}">>
      [] v.t = "arr" -> <<"[">> \o SerializeElems(v.el, 1) \o <<"]">>

\* A scalar the JSON scanner reads back as the one value that was written.
IsToken(r) ==
    \/ Len(r) >= 2 /\ r[1] = Quote /\ r[Len(r)] = Quote
          /\ \A i \in 2..(Len(r) - 1) : r[i] # Quote
    \/ r # <<>> /\ \A i \in 1..Len(r) : IsDigit(r[i])
    \/ r = <<"n", "u", "l", "l">>

\* The text is well-formed JSON.
RECURSIVE WellFormed(_)
WellFormed(v) ==
    CASE v.t = "raw" -> IsToken(v.raw)
      [] v.t = "obj" -> \A i \in 1..Len(v.kv) : WellFormed(v.kv[i].v)
      [] v.t = "arr" -> \A i \in 1..Len(v.el) : WellFormed(v.el[i])

\* a path up to its first dot, and after it
PathPart(path) == IF StrIndex(path, <<".">>) < 0 THEN path ELSE Take(path, StrIndex(path, <<".">>))

PathMore(path) == StrIndex(path, <<".">>) >= 0

PathRest(path) == Drop(path, StrIndex(path, <<".">>) + 1)

\* sjson's atoui: the part is all digits
IsNumeric(part) == \A i \in 1..Len(part) : IsDigit(part[i])

RECURSIVE Atoi(_)
Atoi(part) ==
    IF part = <<>> THEN 0
    ELSE 10 * Atoi(Take(part, Len(part) - 1))
         + ((CHOOSE k \in 1..10 : Digits[k] = part[Len(part)]) - 1)

\* the position of the first member with this key, 0 if none
MemberIndex(kv, key) ==
    LET hits == {i \in 1..Len(kv) : kv[i].k = key}
    IN  IF hits = {} THEN 0 ELSE CHOOSE i \in hits : \A j \in hits : i <= j

NotFound == [exists |-> FALSE, val |-> Raw(<<>>)]

Found(v) == [exists |-> TRUE, val |-> v]

RECURSIVE CollectRaw(_, _)
\* the raw texts of the results that exist, comma separated
CollectRaw(rs, first) ==
    IF rs = <<>> THEN <<>>
    ELSE IF ~Head(rs).exists THEN CollectRaw(Tail(rs), first)
    ELSE (IF first THEN <<>> ELSE <<",">>) \o Serialize(Head(rs).val) \o CollectRaw(Tail(rs), FALSE)

\* gjson.GetBytes(json, path): Exists() and the value, whose text is Raw.
\* On an array, "#" as the last part is the element count and "#.rest" the
\* array of the elements' values at rest; a numeric part is an index.
RECURSIVE GjsonGet(_, _)
GjsonGet(json, path) ==
    LET part == PathPart(path)
        more == PathMore(path)
        rest == PathRest(path)
    IN  CASE json.t = "obj" ->
               LET i == MemberIndex(json.kv, part)
               IN  IF i = 0 THEN NotFound
                   ELSE IF more THEN GjsonGet(json.kv[i].v, rest)
                   ELSE Found(json.kv[i].v)
          [] json.t = "arr" ->
               IF part = <<"#">>
               THEN IF ~more THEN Found(Raw(Itoa(Len(json.el))))
                    ELSE Found(Raw(<<"[">>
                            \o CollectRaw([i \in 1..Len(json.el) |-> GjsonGet(json.el[i], rest)], TRUE)
                            \o <<"]">>))
               ELSE IF part # <<>> /\ IsNumeric(part) /\ Atoi(part) < Len(json.el)
               THEN (IF more THEN GjsonGet(json.el[Atoi(part) + 1], rest)
                     ELSE Found(json.el[Atoi(part) + 1]))
               ELSE NotFound
          [] OTHER -> NotFound

\* gjson.Result.Raw
RawOf(res) == IF res.exists THEN Serialize(res.val) ELSE <<>>

\* gjson.Result.Int() of a count
IntOf(res) == IF res.exists /\ res.val.t = "raw" /\ IsNumeric(res.val.raw) THEN Atoi(res.val.raw) ELSE 0

(***************************************************************************)
(* sjson.  A path is simple when none of its bytes is one of | # @ * ? ;   *)
(* a simple path is resolved part by part with gjson.Get.                  *)
(***************************************************************************)

ErrNone == ""

ErrArrayNotFound == "json array not found"

ErrInvalidArrayPath == "invalid json array path"

ErrEmptyPath == "path cannot be empty"

ErrComplexDelete == "cannot delete value from a complex path"

ErrComplexSet == "array access character not allowed in path"

ErrNonNumericKey == "cannot set array element for non-numeric key"

IsSimplePath(path) == \A i \in 1..Len(path) : path[i] \notin {"|", "#", "@", "*", "?"}

Ok(doc) == [err |-> ErrNone, doc |-> doc]

Fail(err, doc) == [err |-> err, doc |-> doc]

\* the child a simple part names: <<"m", i>> a member, <<"e", i>> an element, <<"", 0>> none
ChildAt(json, part) ==
    CASE json.t = "obj" /\ MemberIndex(json.kv, part) > 0 -> <<"m", MemberIndex(json.kv, part)>>
      [] json.t = "arr" /\ part # <<>> /\ IsNumeric(part) /\ Atoi(part) < Len(json.el) ->
            <<"e", Atoi(part) + 1>>
      [] OTHER -> <<"", 0>>

ChildValue(json, at) == IF at[1] = "m" THEN json.kv[at[2]].v ELSE json.el[at[2]]

WithChild(json, at, v) ==
    IF at[1] = "m" THEN [json EXCEPT !.kv[at[2]].v = v] ELSE [json EXCEPT !.el[at[2]] = v]

RemoveAt(seq, i) == SubSeq(seq, 1, i - 1) \o SubSeq(seq, i + 1, Len(seq))

WithoutChild(json, at) ==
    IF at[1] = "m" THEN [json EXCEPT !.kv = RemoveAt(json.kv, at[2])]
    ELSE [json EXCEPT !.el = RemoveAt(json.el, at[2])]

\* appendRawPaths with del: a value that is not there leaves the text as it is
RECURSIVE DeletePaths(_, _)
DeletePaths(json, path) ==
    LET at == ChildAt(json, PathPart(path))
    IN  IF at[1] = "" THEN json
        ELSE IF PathMore(path)
        THEN WithChild(json, at, DeletePaths(ChildValue(json, at), PathRest(path)))
        ELSE WithoutChild(json, at)

\* sjson.DeleteBytes(json, path)
SjsonDeleteBytes(json, path) ==
    IF path = <<>> THEN Fail(ErrEmptyPath, json)
    ELSE IF ~IsSimplePath(path) THEN Fail(ErrComplexDelete, json)
    ELSE Ok(DeletePaths(json, path))

Nulls(n) == [i \in 1..n |-> JsonNull]

\* appendBuild: the value written under the first part of path when it is created
RECURSIVE BuildValue(_, _)
BuildValue(path, raw) ==
    IF ~PathMore(path) THEN Raw(raw)
    ELSE LET rest == PathRest(path)
             next == PathPart(rest)
         IN  IF IsNumeric(next)
             THEN Arr(Nulls(Atoi(next)) \o <<BuildValue(rest, raw)>>)
             ELSE Obj(<<Member(next, BuildValue(rest, raw))>>)

\* appendRawPaths without del: a value that is there is replaced, one that is
\* not is created (an object member appended, an array padded with nulls, a
\* scalar on the way replaced by a new object or array)
RECURSIVE SetPaths(_, _, _)
SetPaths(json, path, raw) ==
    LET part == PathPart(path)
        at == ChildAt(json, part)
        base == IF json.t \in {"obj", "arr"} THEN json
                ELSE IF IsNumeric(part) THEN Arr(<<>>) ELSE Obj(<<>>)
    IN  IF at[1] # ""
        THEN IF PathMore(path)
             THEN LET sub == SetPaths(ChildValue(json, at), PathRest(path), raw)
                  IN  IF sub.err # ErrNone THEN Fail(sub.err, json)
                      ELSE Ok(WithChild(json, at, sub.doc))
             ELSE Ok(WithChild(json, at, Raw(raw)))
        ELSE IF base.t = "obj"
        THEN Ok([base EXCEPT !.kv = Append(base.kv, Member(part, BuildValue(path, raw)))])
        ELSE IF ~IsNumeric(part) THEN Fail(ErrNonNumericKey, json)
        ELSE Ok([base EXCEPT !.el =
                    base.el \o Nulls(Atoi(part) - Len(base.el)) \o <<BuildValue(path, raw)>>])

\* setComplexPath of an sjson that writes at every position gjson reports for
\* the path: each value the path matches is replaced, nothing is created
RECURSIVE SetEach(_, _, _)
SetEach(json, path, raw) ==
    LET part == PathPart(path)
        at == ChildAt(json, part)
    IN  IF json.t = "arr" /\ part = <<"#">>
        THEN IF ~PathMore(path) THEN json
             ELSE [json EXCEPT !.el =
                      [i \in 1..Len(json.el) |-> SetEach(json.el[i], PathRest(path), raw)]]
        ELSE IF at[1] = "" THEN json
        ELSE IF PathMore(path)
        THEN WithChild(json, at, SetEach(ChildValue(json, at), PathRest(path), raw))
        ELSE WithChild(json, at, Raw(raw))

\* What sjson.SetRawBytes does with a path that is not simple depends on the
\* sjson (and gjson) release the program is built with:
\*   "reject"   the path is refused with an error
\*   "nochange" the path is looked up, no position is known, nothing is written
\*   "each"     every matched position is written
ComplexModes == {"reject", "nochange", "each"}

\* sjson.SetRawBytes(json, path, raw)
SjsonSetRawBytes(mode, json, path, raw) ==
    IF path = <<>> THEN Fail(ErrEmptyPath, json)
    ELSE IF IsSimplePath(path) THEN SetPaths(json, path, raw)
    ELSE CASE mode = "reject" -> Fail(ErrComplexSet, json)
           [] mode = "nochange" -> Ok(json)
           [] OTHER -> Ok(SetEach(json, path, raw))

(***************************************************************************)
(* Mask.  Every function returns [err, doc, log]: the error ("" for nil),   *)
(* the document returned, and log, the sjson calls made so far in order    *)
(* (op "set"/"del" and the address handed to sjson).                       *)
(***************************************************************************)

NilDoc == [t |-> "nil", kv |-> <<>>, el |-> <<>>, raw |-> <<>>]

Res(err, doc, log) == [err |-> err, doc |-> doc, log |-> log]

Call(op, path) == [op |-> op, path |-> path]

\* maskSimplePath with an unknown action reported as an error
maskSimplePathStrict(funcs, mode, data, path, action, log) ==
    IF action # "-" /\ action \notin DOMAIN funcs
    THEN Res("unknown action", NilDoc, log)
    ELSE IF action = "-"
    THEN LET r == SjsonDeleteBytes(data, path)
         IN  Res(r.err, r.doc, Append(log, Call("del", path)))
    ELSE LET r == SjsonSetRawBytes(mode, data, path, ApplyFunc(funcs[action], RawOf(GjsonGet(data, path))))
         IN  Res(r.err, r.doc, Append(log, Call("set", path)))

maskSimplePath(funcs, mode, data, path, action, log) ==
    IF action = "-"
    THEN LET r == SjsonDeleteBytes(data, path)
         IN  Res(r.err, r.doc, Append(log, Call("del", path)))
    ELSE IF action \notin DOMAIN funcs THEN Res(ErrNone, data, log)
    ELSE LET value == GjsonGet(data, path)
             maskedValue == ApplyFunc(funcs[action], RawOf(value))
             r == SjsonSetRawBytes(mode, data, path, maskedValue)
         IN  Res(r.err, r.doc, Append(log, Call("set", path)))

RECURSIVE rangeOverArray(_, _, _, _, _, _, _)
RECURSIVE RangeLoop(_, _, _, _, _, _, _, _, _)

\* the loop "for i := 0; i < int(arr.Int()); i++" of rangeOverArray, from i on
RangeLoop(funcs, mode, data, rule, arrPath, arrItemPath, i, n, log) ==
    LET subArrIdx == StrIndex(arrItemPath, <<".", "#">>)
        subArrPath == IF subArrIdx >= 0 THEN Take(arrItemPath, subArrIdx + 2) ELSE <<>>
        subArrItemPath == IF subArrIdx >= 0 THEN Drop(arrItemPath, subArrIdx + 2) ELSE <<>>
        path == ReplaceAll(arrPath, "#", Itoa(i))
    IN  IF i >= n THEN Res(ErrNone, data, log)
        ELSE IF rule.Action = "-"
        THEN LET r == SjsonDeleteBytes(data, path \o arrItemPath)
                 log1 == Append(log, Call("del", path \o arrItemPath))
             IN  IF r.err # ErrNone THEN Res(r.err, NilDoc, log1)
                 ELSE RangeLoop(funcs, mode, r.doc, rule, arrPath, arrItemPath, i + 1, n, log1)
        ELSE IF subArrIdx < 0
        THEN IF rule.Action \notin DOMAIN funcs
             THEN RangeLoop(funcs, mode, data, rule, arrPath, arrItemPath, i + 1, n, log)
             ELSE LET value == GjsonGet(data, path \o arrItemPath)
                      maskedValue == ApplyFunc(funcs[rule.Action], RawOf(value))
                      r == SjsonSetRawBytes(mode, data, path \o arrItemPath, maskedValue)
                      log1 == Append(log, Call("set", path \o arrItemPath))
                  IN  IF r.err # ErrNone THEN Res(r.err, NilDoc, log1)
                      ELSE RangeLoop(funcs, mode, r.doc, rule, arrPath, arrItemPath, i + 1, n, log1)
        ELSE LET r == rangeOverArray(funcs, mode, data, rule, path \o subArrPath, subArrItemPath, log)
             IN  IF r.err # ErrNone THEN Res(r.err, NilDoc, r.log)
                 ELSE RangeLoop(funcs, mode, r.doc, rule, arrPath, arrItemPath, i + 1, n, r.log)

rangeOverArray(funcs, mode, data, rule, arrPath, arrItemPath, log) ==
    LET arr == GjsonGet(data, arrPath)
    IN  IF ~arr.exists THEN Res(ErrArrayNotFound, data, log)
        ELSE RangeLoop(funcs, mode, data, rule, arrPath, arrItemPath, 0, IntOf(arr), log)

\* the body of the loop of mask for one rule
MaskRule(funcs, mode, data, rule, log) ==
    IF rule.sliceLevel = 0
    THEN maskSimplePath(funcs, mode, data, rule.Path, rule.Action, log)
    ELSE LET idx == StrIndex(rule.Path, <<".", "#">>)
         IN  IF idx < 0 THEN Res(ErrInvalidArrayPath, NilDoc, log)
             ELSE rangeOverArray(funcs, mode, data, rule,
                                 Take(rule.Path, idx + 2), Drop(rule.Path, idx + 2), log)

\* a mask that hands back the document as edited so far together with the error
MaskFailureKeep(data) == data

\* what mask returns when a rule fails: "return nil, err"
MaskFailure(data) == NilDoc

(***************************************************************************)
(* The inputs.  A shape describes the value handed to ParseStruct:          *)
(*   form "nest": a record nested depth levels deep (fields a, b, d, ...,   *)
(*     each level with an untagged field i) whose innermost record holds    *)
(*     the field f: leaf wrapped in wraps (outermost first), tagged         *)
(*     mask:"<mask>" alt:"<alt>".  With pop the pointers are set and the    *)
(*     slices populated and the value is passed itself; without, they are   *)
(*     nil and empty and a pointer to the value is passed.                  *)
(*   form "twin": struct{ X struct{V string `mask:"email"`};                *)
(*                        B struct{ X struct{V string `mask:"first4"`} } }  *)
(***************************************************************************)

MaxDepth == 2

MaxWrap == 2

MaxAddFunc == 1

WrapKinds == {"ptr", "slice", "array"}

LeafKinds == {"string", "struct", "hidden", "outer", "custom", "amount", "map"}

TagNames == {"mask", "alt"}

MaskTags == {"", "upper", "-", "nosuch"}

AltTags == {"", "lower"}

LevelNames == <<"a", "b", "d", "g", "h">>

WrapSeqs == UNION {[1..n -> WrapKinds] : n \in 0..MaxWrap}

Family ==
    [form : {"nest"}, depth : 0..MaxDepth, wraps : WrapSeqs, leaf : LeafKinds,
     mask : MaskTags, alt : AltTags, pop : BOOLEAN]

NoShape ==
    [form |-> "none", depth |-> 0, wraps |-> <<>>, leaf |-> "string",
     mask |-> "", alt |-> "", pop |-> FALSE]

IdField == StructField(<<"I">>, <<"i">>, "", "", Basic("int"))

\* struct{ ID int `json:",omitempty"`; C string `json:"c" mask:"upper" alt:"lower"`;
\*         M int64 `json:"m" mask:"zero"`; flag bool `mask:"upper"` }
ElemStruct ==
    Struct(<<StructField(<<"I", "D">>, <<",", "o", "m", "i", "t", "e", "m", "p", "t", "y">>,
                         "", "", Basic("int")),
             StructField(<<"C">>, <<"c">>, "upper", "lower", Basic("string")),
             StructField(<<"M">>, <<"m", ",", "o", "m", "i", "t", "e", "m", "p", "t", "y">>,
                         "zero", "", Basic("int64")),
             StructField(<<"f", "l", "a", "g">>, <<>>, "upper", "", Basic("bool"))>>)

\* struct{ I int `json:"i"`; S int64 `json:"s" mask:"-"` }
HiddenStruct == Struct(<<IdField, StructField(<<"S">>, <<"s">>, "-", "", Basic("int64"))>>)

\* struct{ I int `json:"i" mask:"zero"`; B []ElemStruct `json:"b"` }
OuterStruct(pop) ==
    Struct(<<StructField(<<"I">>, <<"i">>, "zero", "", Basic("int")),
             StructField(<<"B">>, <<"b">>, "", "", Slice(pop, ElemStruct))>>)

\* struct{ I int `json:"i"`; C string `json:"c" mask:"nosuch"` }
CustomStruct == Struct(<<IdField, StructField(<<"C">>, <<"c">>, "nosuch", "", Basic("string"))>>)

\* struct{ I int `json:"i"`; M int64 `json:"m" mask:"zero"` }
AmountStruct == Struct(<<IdField, StructField(<<"M">>, <<"m">>, "zero", "", Basic("int64"))>>)

LeafValue(kind, pop) ==
    CASE kind = "string" -> Basic("string")
      [] kind = "struct" -> ElemStruct
      [] kind = "hidden" -> HiddenStruct
      [] kind = "outer" -> OuterStruct(pop)
      [] kind = "custom" -> CustomStruct
      [] kind = "amount" -> AmountStruct
      [] kind = "map" -> MapOf(Basic("string"))

RECURSIVE Wrapped(_, _, _)
Wrapped(wraps, leaf, pop) ==
    IF wraps = <<>> THEN leaf
    ELSE LET inner == Wrapped(Tail(wraps), leaf, pop)
         IN  CASE Head(wraps) = "ptr" -> Ptr(pop, inner)
               [] Head(wraps) = "slice" -> Slice(pop, inner)
               [] Head(wraps) = "array" -> Array(inner)

\* the record at nesting level k (0 the top) of a record nested depth deep
RECURSIVE Nested(_, _, _)
Nested(k, depth, field) ==
    IF k = depth THEN Struct(<<IdField, field>>)
    ELSE Struct(<<IdField,
                  StructField(<<ToUpperByte(LevelNames[k + 1])>>, <<LevelNames[k + 1]>>, "", "",
                              Nested(k + 1, depth, field))>>)

TwinStruct ==
    LET inner(tag) ==
            Struct(<<StructField(<<"V">>, <<"v">>, tag, "", Basic("string"))>>)
    IN  Struct(<<StructField(<<"X">>, <<"x">>, "", "", inner("email")),
                 StructField(<<"B">>, <<"b">>, "", "",
                     Struct(<<StructField(<<"X">>, <<"x">>, "", "", inner("first4"))>>))>>)

\* the value handed to ParseStruct
SrcOf(sh) ==
    IF sh.form = "twin" THEN TwinStruct
    ELSE LET field == StructField(<<"F">>, <<"f">>, sh.mask, sh.alt,
                                  Wrapped(sh.wraps, LeafValue(sh.leaf, sh.pop), sh.pop))
             top == Nested(0, sh.depth, field)
         IN  IF sh.pop THEN top ELSE Ptr(TRUE, top)

Nest(depth, wraps, leaf, mask) ==
    [form |-> "nest", depth |-> depth, wraps |-> wraps, leaf |-> leaf,
     mask |-> mask, alt |-> "", pop |-> TRUE]

\* the shapes whose rules are applied to documents
MaskShapes ==
    {Nest(0, <<>>, "string", t) : t \in {"upper", "-", "email", "first4", "nosuch", "null"}}
    \cup {Nest(0, <<"slice">>, l, "") : l \in {"struct", "hidden", "outer", "custom", "amount"}}
    \cup {Nest(0, <<"slice", "slice">>, l, "") : l \in {"struct", "hidden"}}
    \cup {Nest(0, <<"array", "array">>, "struct", ""),
          Nest(1, <<"slice">>, "struct", ""),
          Nest(1, <<>>, "string", "null"),
          Nest(2, <<>>, "string", "upper"),
          [NoShape EXCEPT !.form = "twin"]}

\* rule sets a caller writes down: Path and Action are exported, sliceLevel is not
HandBuilt ==
    { <<Rule(<<"f">>, "initialChar"), Rule(<<"a", ".", "b", ".", "f">>, "upper")>>,
      <<Rule(<<"f", ".", "#", ".", "c">>, "upper")>>,
      <<Rule(<<"f", ".", "#", ".", "c">>, "nosuch")>>,
      <<Rule(<<"f", ".", "#", ".", "c">>, "nosuch"), Rule(<<"i">>, "zero")>>,
      <<Rule(<<"f", ".", "#", ".", "s">>, "-")>>,
      <<Rule(<<"x">>, "-"), Rule(<<"i">>, "null")>> }

Num(d) == Raw(d)

ElemDoc(id, cur, units) ==
    Obj(<<Member(<<"I", "D">>, Num(id)), Member(<<"c">>, Str(cur)), Member(<<"m">>, Num(units))>>)

Usd == ElemDoc(<<"1">>, <<"u", "s", "d">>, <<"5">>)

Eur == ElemDoc(<<"2">>, <<"e", "u", "r">>, <<"6">>)

Czk == ElemDoc(<<"3">>, <<"c", "z", "k">>, <<"7">>)

Gbp == ElemDoc(<<"4">>, <<"g", "b", "p">>, <<"8">>)

MailText == <<"a", "b", "@", "c", ".", "d">>

TopDoc(f) == Obj(<<Member(<<"i">>, Num(<<"1">>))>> \o f)

F(v) == <<Member(<<"f">>, v)>>

OuterDoc(id, b) == Obj(<<Member(<<"i">>, Num(id))>> \o b)

HiddenDoc(id, secret) == Obj(<<Member(<<"i">>, Num(id)), Member(<<"s">>, Num(secret))>>)

\* the documents handed to Mask
Docs ==
    { TopDoc(F(Str(MailText))),
      TopDoc(<<>>),
      TopDoc(F(JsonNull)),
      TopDoc(F(Arr(<<>>))),
      TopDoc(F(Arr(<<Usd, Eur>>))),
      TopDoc(F(Arr(<<Arr(<<Usd, Eur>>), Arr(<<Czk, Gbp>>)>>))),
      TopDoc(F(Arr(<<OuterDoc(<<"1">>, <<Member(<<"b">>, Arr(<<Usd, Eur>>))>>),
                     OuterDoc(<<"2">>, <<Member(<<"b">>, Arr(<<Czk, Gbp>>))>>)>>))),
      TopDoc(F(Arr(<<OuterDoc(<<"1">>, <<Member(<<"b">>, Arr(<<Usd, Eur>>))>>),
                     OuterDoc(<<"2">>, <<>>)>>))),
      TopDoc(F(Arr(<<HiddenDoc(<<"1">>, <<"9">>), HiddenDoc(<<"2">>, <<"8">>)>>))),
      TopDoc(F(Arr(<<Arr(<<HiddenDoc(<<"1">>, <<"9">>), HiddenDoc(<<"2">>, <<"8">>)>>),
                     Arr(<<HiddenDoc(<<"3">>, <<"7">>)>>)>>))),
      TopDoc(F(Arr(<<JsonNull, Obj(<<Member(<<"i">>, Num(<<"2">>)), Member(<<"m">>, Num(<<"7">>))>>)>>))),
      TopDoc(<<Member(<<"a">>, JsonNull)>>),
      TopDoc(<<Member(<<"a">>, TopDoc(F(Arr(<<Usd, Eur>>))))>>),
      TopDoc(<<Member(<<"a">>, TopDoc(<<Member(<<"b">>, TopDoc(F(Str(MailText))))>>))>>),
      Obj(<<Member(<<"x">>, Obj(<<Member(<<"v">>, Str(MailText))>>)),
            Member(<<"b">>, Obj(<<Member(<<"x">>, Obj(<<Member(<<"v">>, Str(<<"q">>))>>))>>))>>) }

(***************************************************************************)
(* The state machine                                                       *)
(***************************************************************************)

VARIABLES
    pc,        \* "new", "ready", "masking", "done"
    reqTag,    \* the tag name handed to NewWithMaskTag
    jm,        \* the masker: [tag, funcs]
    mode,      \* which sjson the program is built with (ComplexModes)
    nAdd,      \* AddFunc calls made
    shape,     \* the shape of the value handed to ParseStruct
    src,       \* the value handed to ParseStruct
    smr,       \* StructMaskRules.Rules
    origin,    \* "none", "parsed" (ParseStruct returned smr) or "built" (the caller wrote it)
    input,     \* the document handed to Mask
    data,      \* mask's local data
    ri,        \* the rule mask is at (1-based)
    err,       \* the error Mask returned
    result,    \* the document Mask returned
    pass,      \* 1 the first Mask call, 2 a second call on the first one's result
    log        \* the sjson calls of this Mask call

vars == <<pc, reqTag, jm, mode, nAdd, shape, src, smr, origin, input, data, ri, err, result, pass, log>>

Init ==
    /\ pc = "new"
    /\ reqTag = ""
    /\ jm = [tag |-> "", funcs |-> <<>>]
    /\ mode \in ComplexModes
    /\ nAdd = 0
    /\ shape = NoShape
    /\ src = NoValue
    /\ smr = <<>>
    /\ origin = "none"
    /\ input = NilDoc
    /\ data = NilDoc
    /\ ri = 0
    /\ err = ErrNone
    /\ result = NilDoc
    /\ pass = 0
    /\ log = <<>>

NewWithMaskTag(tag) ==
    /\ pc = "new"
    /\ pc' = "ready"
    /\ reqTag' = tag
    /\ jm' = [tag |-> NewTag(tag), funcs |-> NewFuncs]
    /\ UNCHANGED <<mode, nAdd, shape, src, smr, origin, input, data, ri, err, result, pass, log>>

AddFunc(name, f) ==
    /\ pc = "ready"
    /\ origin = "none"
    /\ nAdd < MaxAddFunc
    /\ nAdd' = nAdd + 1
    /\ jm' = [jm EXCEPT !.funcs = AddFuncTo(jm.funcs, name, f)]
    /\ UNCHANGED <<pc, reqTag, mode, shape, src, smr, origin, input, data, ri, err, result, pass, log>>

ParseStructCall(sh) ==
    /\ pc = "ready"
    /\ origin = "none"
    /\ shape' = sh
    /\ src' = SrcOf(sh)
    /\ smr' = ParseStruct(jm.tag, SrcOf(sh))
    /\ origin' = "parsed"
    /\ UNCHANGED <<pc, reqTag, jm, mode, nAdd, input, data, ri, err, result, pass, log>>

BuildRules(rules) ==
    /\ pc = "ready"
    /\ origin = "none"
    /\ smr' = rules
    /\ origin' = "built"
    /\ UNCHANGED <<pc, reqTag, jm, mode, nAdd, shape, src, input, data, ri, err, result, pass, log>>

\* Mask(data, smr) is entered
MaskCall(doc) ==
    /\ pc = "ready"
    /\ origin # "none"
    /\ pc' = "masking"
    /\ input' = doc
    /\ data' = doc
    /\ ri' = 1
    /\ pass' = 1
    /\ log' = <<>>
    /\ UNCHANGED <<reqTag, jm, mode, nAdd, shape, src, smr, origin, err, result>>

\* one turn of the loop of mask.  A rule is applied to well-formed text only:
\* what gjson reads from text that an earlier rule left malformed depends on
\* how its scanner recovers, and the run is not followed past that point.
MaskStep ==
    /\ pc = "masking"
    /\ ri <= Len(smr)
    /\ WellFormed(data)
    /\ LET r == MaskRule(jm.funcs, mode, data, smr[ri], log)
       IN  /\ log' = r.log
           /\ IF r.err # ErrNone
              THEN /\ pc' = "done"
                   /\ err' = r.err
                   /\ result' = MaskFailure(data)
                   /\ UNCHANGED <<data, ri>>
              ELSE /\ data' = r.doc
                   /\ ri' = ri + 1
                   /\ UNCHANGED <<pc, err, result>>
    /\ UNCHANGED <<reqTag, jm, mode, nAdd, shape, src, smr, origin, input, pass>>

\* "return data, nil"
MaskReturn ==
    /\ pc = "masking"
    /\ ri > Len(smr)
    /\ pc' = "done"
    /\ result' = data
    /\ UNCHANGED <<reqTag, jm, mode, nAdd, shape, src, smr, origin, input, data, ri, err, log, pass>>

\* the caller hands the result of the first call to Mask again, with the same rules
MaskAgain ==
    /\ pc = "done"
    /\ pass = 1
    /\ err = ErrNone
    /\ WellFormed(result)
    /\ pc' = "masking"
    /\ input' = result
    /\ data' = result
    /\ ri' = 1
    /\ pass' = 2
    /\ log' = <<>>
    /\ UNCHANGED <<reqTag, jm, mode, nAdd, shape, src, smr, origin, err, result>>

Next ==
    \/ \E tag \in TagNames : NewWithMaskTag(tag)
    \/ \E name \in {"nosuch", "upper"} : AddFunc(name, "first3dots")
    \/ \E sh \in MaskShapes : ParseStructCall(sh)
    \/ \E rules \in HandBuilt : BuildRules(rules)
    \/ \E doc \in Docs : MaskCall(doc)
    \/ MaskStep
    \/ MaskReturn
    \/ MaskAgain

Spec == Init /\ [][Next]_vars

\* ParseStruct on every shape of the family
NextParse ==
    \/ \E tag \in TagNames : NewWithMaskTag(tag)
    \/ \E sh \in Family : ParseStructCall(sh)

SpecParse == Init /\ [][NextParse]_vars

(***************************************************************************)
(* What the specification expects of ParseStruct, written from the shape   *)
(*  alone                                                                  *)
(***************************************************************************)

RECURSIVE Dotted(_)
\* the names joined with dots
Dotted(names) ==
    IF Len(names) = 1 THEN names[1] ELSE names[1] \o <<".">> \o Dotted(Tail(names))

\* the wire names from the top-level record down to the field f
FieldNames(sh) == [k \in 1..sh.depth |-> <<LevelNames[k]>>] \o << <<"f">> >>

\* the full address of the field f
FullPath(sh) == Dotted(FieldNames(sh))

\* the number of array levels of the field's type
ArrayLevels(sh) == Cardinality({k \in DOMAIN sh.wraps : sh.wraps[k] \in {"slice", "array"}})

RECURSIVE Wildcards(_)
Wildcards(k) == IF k = 0 THEN <<>> ELSE <<".", "#">> \o Wildcards(k - 1)

RecordLeaves == {"struct", "hidden", "custom", "amount"}

\* the tagged fields of a leaf record: <<wire name, value of the tag mask>>
TaggedFields(leaf) ==
    CASE leaf = "struct" -> << <<(<<"c">>), "upper">>, <<(<<"m">>), "zero">> >>
      [] leaf = "hidden" -> << <<(<<"s">>), "-">> >>
      [] leaf = "custom" -> << <<(<<"c">>), "nosuch">> >>
      [] leaf = "amount" -> << <<(<<"m">>), "zero">> >>
      [] OTHER -> <<>>

\* Path and Action of every rule, in order
PathsAndActions(rules) == [i \in DOMAIN rules |-> <<rules[i].Path, rules[i].Action>>]

\* the value of the tag named tag on the field f
TagValue(sh, tag) == IF tag = "mask" THEN sh.mask ELSE sh.alt

Parsed == origin = "parsed" /\ shape.form = "nest"

\* C1: for a record nested inside records, no array involved, the address of
\* every rule ParseStruct emits is the full dotted path of wire names from the
\* top-level record down to the tagged field.
C1_FullDottedPath ==
    (Parsed /\ ArrayLevels(shape) = 0 /\ shape.leaf # "outer")
        => \A i \in DOMAIN smr :
              \/ smr[i].Path = FullPath(shape)
              \/ \E j \in DOMAIN TaggedFields(shape.leaf) :
                    smr[i].Path = FullPath(shape) \o <<".">> \o TaggedFields(shape.leaf)[j][1]

\* C2: a field tagged "-" yields, whatever its shape, exactly one rule: the
\* field's address without a wildcard segment and the action "-", and no rule
\* for anything below the field.
C2_DeletionOneRule ==
    (Parsed /\ reqTag = "mask" /\ shape.mask = "-")
        => PathsAndActions(smr) = << <<FullPath(shape), "-">> >>

\* C3: a field of a top-level record whose type is an array nested k >= 1
\* levels deep (arrays and slices in any mix, behind pointers or not, empty or
\* populated) with record elements yields one rule per tagged field of the
\* element record: the field's address, k wildcard segments, the element
\* field's wire name.
C3_OneWildcardPerLevel ==
    (Parsed /\ reqTag = "mask" /\ shape.depth = 0 /\ ArrayLevels(shape) >= 1
        /\ shape.leaf \in RecordLeaves /\ shape.mask # "-")
        => PathsAndActions(smr) =
              [j \in DOMAIN TaggedFields(shape.leaf) |->
                  <<FullPath(shape) \o Wildcards(ArrayLevels(shape)) \o <<".">>
                        \o TaggedFields(shape.leaf)[j][1],
                    TaggedFields(shape.leaf)[j][2]>>]

\* C9: a masker made by NewWithMaskTag(t) takes the rule of a scalar field from
\* the field's tag named t and from no other tag.
C9_ReadsRequestedTag ==
    (Parsed /\ shape.depth = 0 /\ shape.wraps = <<>> /\ shape.leaf = "string")
        => PathsAndActions(smr) =
              IF TagValue(shape, reqTag) = "" THEN <<>>
              ELSE << <<(<<"f">>), TagValue(shape, reqTag)>> >>

(***************************************************************************)
(* What the specification expects of Mask, written from the document and   *)
(* the rules alone                                                         *)
(***************************************************************************)

RECURSIVE Split(_)
\* the parts of a dotted address
Split(path) == IF ~PathMore(path) THEN <<path>> ELSE <<PathPart(path)>> \o Split(PathRest(path))

HasWildcard(path) == \E k \in DOMAIN Split(path) : Split(path)[k] = <<"#">>

Step(part, elem) == [part |-> part, elem |-> elem]

RECURSIVE Leaves(_, _)
RECURSIVE MemberLeaves(_, _, _)
RECURSIVE ElemLeaves(_, _, _)

\* the scalars (and empty containers) of a document in document order, each
\* with its address: the member names and element indexes leading to it
Leaves(json, addr) ==
    CASE json.t = "obj" /\ json.kv # <<>> -> MemberLeaves(json.kv, 1, addr)
      [] json.t = "arr" /\ json.el # <<>> -> ElemLeaves(json.el, 1, addr)
      [] OTHER -> <<[addr |-> addr, t |-> json.t, raw |-> json.raw]>>

MemberLeaves(kv, i, addr) ==
    IF i > Len(kv) THEN <<>>
    ELSE Leaves(kv[i].v, Append(addr, Step(kv[i].k, FALSE))) \o MemberLeaves(kv, i + 1, addr)

ElemLeaves(el, i, addr) ==
    IF i > Len(el) THEN <<>>
    ELSE Leaves(el[i], Append(addr, Step(Itoa(i - 1), TRUE))) \o ElemLeaves(el, i + 1, addr)

\* the rule address pat reaches addr or something addr lies in
Covers(pat, addr) ==
    /\ Len(pat) <= Len(addr)
    /\ \A k \in 1..Len(pat) : pat[k] = addr[k].part \/ (pat[k] = <<"#">> /\ addr[k].elem)

\* what no rule addresses
Unaddressed(doc, rules) ==
    LET free(l) == \A i \in DOMAIN rules : ~Covers(Split(rules[i].Path), l.addr)
    IN  SelectSeq(Leaves(doc, <<>>), free)

RECURSIVE Unresolved(_, _)
\* some array prefix of the wildcard address is no array of the document
Unresolved(doc, path) ==
    LET idx == StrIndex(path, <<".", "#">>)
        arr == GjsonGet(doc, Take(path, idx))
    IN  IF idx < 0 THEN FALSE
        ELSE IF ~arr.exists \/ arr.val.t # "arr" THEN TRUE
        ELSE \E i \in 0..(Len(arr.val.el) - 1) :
                Unresolved(doc, Take(path, idx) \o <<".">> \o Itoa(i) \o Drop(path, idx + 2))

Registered(action) == action \in DOMAIN jm.funcs

AllUnregistered == smr # <<>> /\ \A i \in DOMAIN smr : smr[i].Action # "-" /\ ~Registered(smr[i].Action)

\* a rule Mask expands meets something that is no array where it needs one
ExpansionFails == \E i \in DOMAIN smr : smr[i].sliceLevel > 0 /\ Unresolved(input, smr[i].Path)

\* mask is about to apply smr[ri] to data
AtRule == pc = "masking" /\ ri <= Len(smr) /\ WellFormed(data)

\* C4 as the specification states it: rules whose actions are all unregistered
\* names leave any document unchanged and raise no error, with or without
\* wildcard segments, whether or not the addressed arrays exist.
C4_UnregisteredUnchanged ==
    (pc = "done" /\ AllUnregistered) => (err = ErrNone /\ result = input)

\* C4, amended: rules whose actions are all unregistered names leave the
\* document unchanged and raise no error, unless a rule that Mask expands (one
\* ParseStruct derived with wildcard segments) needs an array the document
\* does not have: then Mask fails with "json array not found" and returns no
\* document.
C4_UnregisteredUnlessNoArray ==
    (pc = "done" /\ AllUnregistered)
        => IF ExpansionFails THEN err = ErrArrayNotFound /\ result = NilDoc
           ELSE err = ErrNone /\ result = input

\* a wildcard rule with an unregistered action has been run over an existing array
C4_Witness ==
    /\ pc = "done"
    /\ AllUnregistered
    /\ smr[1].sliceLevel > 0
    /\ GjsonGet(input, <<"f", ".", "#">>).exists
    /\ IntOf(GjsonGet(input, <<"f", ".", "#">>)) = 2
    /\ err = ErrNone

\* C5: when Mask succeeds with rules that have wildcard segments at one or two
\* array levels, every value no rule addresses has the value and the position
\* in the result that it has in the input.
C5_OnlyAddressedChange ==
    (pc = "done" /\ err = ErrNone /\ \A i \in DOMAIN smr : smr[i].sliceLevel \in {1, 2})
        => Unaddressed(result, smr) = Unaddressed(input, smr)

\* C6: whenever mask reaches a wildcard rule whose array prefix is no array of
\* the current document, the call fails at that rule: no later rule is applied.
C6_MissingArrayStops ==
    [][(AtRule /\ HasWildcard(smr[ri].Path) /\ Unresolved(data, smr[ri].Path))
          => (pc' = "done" /\ err' # ErrNone)]_vars

\* C7 as the specification states it: when Mask fails after earlier rules
\* edited the document, the caller ends up with the document as edited so far.
C7_EditsRemain ==
    (pc = "done" /\ err # ErrNone /\ data # input) => result = data

\* C7, amended: when Mask fails it returns no document, only the error: the
\* edits made before the failure are discarded with the working copy.
C7_FailureReturnsNoDocument ==
    (pc = "done" /\ err # ErrNone) => result = NilDoc

\* Mask failed at a later rule, after an earlier rule had edited the document
C7_Witness == pc = "done" /\ err # ErrNone /\ ri > 1 /\ data # input /\ log # <<>>

\* C8: a rule without wildcard segments whose address is not in the document,
\* its action "-" or a registered function, leaves the document as it is and
\* the call goes on without an error.
C8_MissingAddressNoOp ==
    [][(AtRule /\ ~HasWildcard(smr[ri].Path) /\ ~GjsonGet(data, smr[ri].Path).exists
           /\ (smr[ri].Action = "-" \/ Registered(smr[ri].Action)))
          => (data' = data /\ err' = ErrNone /\ pc' = "masking")]_vars

\* C10: Mask applied with the same rules, their actions built-in functions or
\* "-", to the output of a first call returns that output unchanged.
C10_Idempotent ==
    (pc = "done" /\ pass = 2
        /\ \A i \in DOMAIN smr : smr[i].Action = "-" \/ smr[i].Action \in BuiltinNames)
        => (err = ErrNone /\ result = input)

RECURSIVE Expand(_, _)
RECURSIVE ExpandFrom(_, _, _, _)

\* the concrete addresses a wildcard address stands for in doc: each wildcard,
\* from the left, replaced by 0 .. N-1 in ascending order, N the length of the
\* array found there
Expand(doc, path) ==
    LET idx == StrIndex(path, <<".", "#">>)
        arr == GjsonGet(doc, Take(path, idx))
    IN  IF idx < 0 THEN <<path>>
        ELSE IF ~arr.exists \/ arr.val.t # "arr" THEN <<>>
        ELSE ExpandFrom(doc, path, 0, Len(arr.val.el))

ExpandFrom(doc, path, i, n) ==
    LET idx == StrIndex(path, <<".", "#">>)
    IN  IF i >= n THEN <<>>
        ELSE Expand(doc, Take(path, idx) \o <<".">> \o Itoa(i) \o Drop(path, idx + 2))
                \o ExpandFrom(doc, path, i + 1, n)

IsPrefixOf(s, t) == Len(s) <= Len(t) /\ SubSeq(t, 1, Len(s)) = s

\* the addresses handed to sjson by the step being taken
NewCalls == [k \in 1..(Len(log') - Len(log)) |-> log'[Len(log) + k].path]

\* mask is about to expand a rule that ParseStruct derived, its action "-" or a
\* registered function, in a document that has an array at every wildcard
AtDerivedWildcard ==
    /\ AtRule
    /\ origin = "parsed"
    /\ smr[ri].sliceLevel > 0
    /\ (smr[ri].Action = "-" \/ Registered(smr[ri].Action))
    /\ ~Unresolved(data, smr[ri].Path)

\* C11: a wildcard rule derived by ParseStruct is applied at the concrete
\* addresses its wildcards stand for in the document, index 0 to N-1 in
\* ascending order at every level, and at no other address: the addresses
\* handed over are those, in that order, all of them when the rule succeeds.
C11_AscendingExpansion ==
    [][AtDerivedWildcard
          => /\ IsPrefixOf(NewCalls, Expand(data, smr[ri].Path))
             /\ (err' = ErrNone => NewCalls = Expand(data, smr[ri].Path))]_vars

\* the number of wildcard segments of an address
WildcardCount(path) == Cardinality({k \in DOMAIN Split(path) : Split(path)[k] = <<"#">>})

\* C12: for every rule Mask processes, derived by ParseStruct or written by
\* the caller, the wildcard depth Mask goes by is the number of wildcard
\* segments in the rule's Path.
C12_DepthIsWildcardCount ==
    pc = "masking" => \A i \in DOMAIN smr : smr[i].sliceLevel = WildcardCount(smr[i].Path)

\* C13: every rule ParseStruct returns has a non-empty Action, whatever the
\* shape of the field.
C13_ActionNonEmpty ==
    Parsed => \A i \in DOMAIN smr : smr[i].Action # ""

\* C14: no two rules ParseStruct returns have the same address.
C14_AddressesUnique ==
    origin = "parsed" => \A i, j \in DOMAIN smr : i # j => smr[i].Path # smr[j].Path

\* a rule set of wildcard deletions derived by ParseStruct has been applied to a
\* document that has an array at every wildcard
DeletedUnderWildcards ==
    /\ pc = "done"
    /\ pass = 1
    /\ origin = "parsed"
    /\ smr # <<>>
    /\ \A i \in DOMAIN smr :
          smr[i].Action = "-" /\ smr[i].sliceLevel >= 1 /\ ~Unresolved(input, smr[i].Path)

\* C15: a deletion rule with wildcard segments at one or more array levels
\* succeeds, every address handed to the delete operation is concrete, and
\* afterwards no element at any level has the targeted field.
C15_WildcardDeletion ==
    DeletedUnderWildcards
        => /\ err = ErrNone
           /\ \A k \in DOMAIN log : ~HasWildcard(log[k].path)
           /\ \A i \in DOMAIN smr :
                \A k \in DOMAIN Leaves(result, <<>>) :
                    ~Covers(Split(smr[i].Path), Leaves(result, <<>>)[k].addr)

====
